---- MODULE Spec2Model ----
(***************************************************************************)
(* State-machine model of src/app.py: the WhatsApp ordering bot with       *)
(* buyer -> seller handoff, the seller's active-chat slot, and the         *)
(* supervisor endpoint.                                                    *)
(*                                                                         *)
(* Text (message bodies, phone numbers, Redis keys) is modelled as a       *)
(* sequence of one-character strings, so that lower(), strip(), isdigit(), *)
(* int(), split(), startswith(), "k in msg" and replace() are computed the *)
(* way Python computes them.  Session values are dicts: functions whose    *)
(* domain is the set of keys present.  json.dumps/json.loads of such a     *)
(* dict (string keys; string, int and dict values) returns an equal dict,  *)
(* so a stored session is the dict itself.                                 *)
(*                                                                         *)
(* One action is one HTTP request handled to completion, with every        *)
(* client.messages.create call returning normally.  request, reply and     *)
(* outbox record the last request, its answer and the messages it sent.    *)
(***************************************************************************)
EXTENDS Integers, Sequences, FiniteSets, TLC, Bags

VARIABLES
    sessions,           \* Redis: session:<number> -> session dict
    active_chat,        \* Redis: seller_active_chat:<seller> -> buyer number
    orders,             \* Redis list orders:recent, newest first
    SUPERVISOR_NUMBER,  \* environment setting, "" when not configured
    request,            \* the HTTP request of the last call
    reply,              \* the answer of the last call
    outbox,             \* the client.messages.create calls of the last call
    in_flight           \* requests being handled at once: a bag of handlers

vars == <<sessions, active_chat, orders, SUPERVISOR_NUMBER, request, reply, outbox,
          in_flight>>

-----------------------------------------------------------------------------
(* Python str operations                                                   *)

UpperChars == <<"A","B","C","D","E","F","G","H","I","J","K","L","M",
                "N","O","P","Q","R","S","T","U","V","W","X","Y","Z">>
LowerChars == <<"a","b","c","d","e","f","g","h","i","j","k","l","m",
                "n","o","p","q","r","s","t","u","v","w","x","y","z">>
DigitChars == <<"0","1","2","3","4","5","6","7","8","9">>
Whitespace == {" ", "\n", "\t"}

IndexIn(seq, c) == CHOOSE i \in 1..Len(seq) : seq[i] = c

lower_char(c) ==
    IF \E i \in 1..Len(UpperChars) : UpperChars[i] = c
    THEN LowerChars[IndexIn(UpperChars, c)] ELSE c

lower(str) == [i \in 1..Len(str) |-> lower_char(str[i])]

isdigit(str) ==
    /\ Len(str) > 0
    /\ \A i \in 1..Len(str) : \E d \in 1..Len(DigitChars) : DigitChars[d] = str[i]

RECURSIVE int(_)
int(str) ==
    IF Len(str) = 0 THEN 0
    ELSE 10 * int(SubSeq(str, 1, Len(str) - 1))
         + (IndexIn(DigitChars, str[Len(str)]) - 1)

RECURSIVE lstrip(_)
lstrip(str) ==
    IF Len(str) > 0 /\ Head(str) \in Whitespace THEN lstrip(Tail(str)) ELSE str

RECURSIVE rstrip(_)
rstrip(str) ==
    IF Len(str) > 0 /\ str[Len(str)] \in Whitespace
    THEN rstrip(SubSeq(str, 1, Len(str) - 1)) ELSE str

strip(str) == rstrip(lstrip(str))

startswith(str, prefix) ==
    /\ Len(str) >= Len(prefix)
    /\ SubSeq(str, 1, Len(prefix)) = prefix

\* Python's "sub in str"
contains(str, sub) ==
    \E i \in 1..(Len(str) - Len(sub) + 1) : SubSeq(str, i, i + Len(sub) - 1) = sub

\* str.replace(old, ""): every non-overlapping occurrence of old, left to right
RECURSIVE replace(_, _)
replace(str, old) ==
    IF Len(str) < Len(old) \/ Len(str) = 0 THEN str
    ELSE IF startswith(str, old)
         THEN replace(SubSeq(str, Len(old) + 1, Len(str)), old)
         ELSE <<Head(str)>> \o replace(Tail(str), old)

\* str.split(): the maximal runs of non-whitespace characters
RECURSIVE word_end(_, _)
word_end(str, i) ==
    IF i > Len(str) \/ str[i] \in Whitespace THEN i - 1 ELSE word_end(str, i + 1)

RECURSIVE split(_)
split(str) ==
    LET s == lstrip(str)
    IN IF Len(s) = 0 THEN <<>>
       ELSE LET e == word_end(s, 1)
            IN <<SubSeq(s, 1, e)>> \o split(SubSeq(s, e + 1, Len(s)))

-----------------------------------------------------------------------------
(* Python dict operations                                                  *)

dict_set(d, k, v) == [x \in DOMAIN d \cup {k} |-> IF x = k THEN v ELSE d[x]]
dict_pop(d, k) == [x \in DOMAIN d \ {k} |-> d[x]]
EmptyDict == [x \in {} |-> 0]

\* Python's None where a str is expected (no text is equal to it)
None == <<"None">>
\* Python's None where a product dict is expected
NoProduct == [None |-> TRUE]

-----------------------------------------------------------------------------
(* Configuration and business data                                          *)

SELLER_NUMBER == <<"+","0">>

PRODUCT_OPTIONS ==
    <<[name |-> <<"a","l","i","e","n","g","o"," ","k","i","n","g","s","i","z","e"," ","b","l","a","c","k">>, price |-> 150],
      [name |-> <<"k","o","r","o","b","o"," ","1"," ","1","/","4","\""," ","b","l","u","e">>,    price |-> 100],
      [name |-> <<"w","e","t","o","p"," ","1"," ","1","/","4","\""," ","b","r","o","w","n">>,    price |-> 100],
      [name |-> <<"b","o","x"," ","w","i","t","h"," ","5","0"," ","b","o","o","k","l","e","t","s">>,   price |-> 2300]>>

DELIVERY_CHARGE == 200

OrdersKeep == 1000

BUYER_HANDOFF_KEYWORDS == {<<"a","g","e","n","t">>, <<"h","u","m","a","n">>, <<"s","e","l","l","e","r">>, <<"s","u","p","p","o","r","t">>}
SELLER_HELP_KEYWORDS == {<<"#","h","e","l","p">>, <<"#","s","u","p","e","r","v","i","s","o","r">>, <<"#","a","s","s","i","s","t">>}

HandoffStates == {"handoff_seller", "handoff_supervisor"}

-----------------------------------------------------------------------------
(* Redis keys and the persistent helpers.  A store is a function from the   *)
(* keys that exist to their values.                                        *)

session_key(number) == <<"s","e","s","s","i","o","n",":">> \o number

seller_active_chat_key(seller_number) == <<"s","e","l","l","e","r","_","a","c","t","i","v","e","_","c","h","a","t",":">> \o seller_number

redis_set(store, key, value) == dict_set(store, key, value)
redis_delete(store, key) == dict_pop(store, key)

get_session(key) ==
    IF session_key(key) \in DOMAIN sessions
    THEN sessions[session_key(key)] ELSE [state |-> "initial"]

\* a write that sets the fields of value one by one and keeps the other fields
set_session_field_by_field(store, key, value) ==
    LET old == IF session_key(key) \in DOMAIN store THEN store[session_key(key)]
               ELSE EmptyDict
    IN redis_set(store, session_key(key),
                 [f \in DOMAIN old \cup DOMAIN value |->
                     IF f \in DOMAIN value THEN value[f] ELSE old[f]])

set_session(store, key, value) == redis_set(store, session_key(key), value)

get_seller_active_chat(seller_number) ==
    IF seller_active_chat_key(seller_number) \in DOMAIN active_chat
    THEN active_chat[seller_active_chat_key(seller_number)] ELSE None

set_seller_active_chat_if_unset(seller_number, buyer_number) ==
    IF seller_active_chat_key(seller_number) \in DOMAIN active_chat
    THEN active_chat
    ELSE redis_set(active_chat, seller_active_chat_key(seller_number), buyer_number)

set_seller_active_chat(seller_number, buyer_number) ==
    redis_set(active_chat, seller_active_chat_key(seller_number), buyer_number)

pop_seller_active_chat(seller_number) ==
    redis_delete(active_chat, seller_active_chat_key(seller_number))

\* lpush then ltrim 0..999: newest first, at most OrdersKeep entries
save_order(order) ==
    LET pushed == <<order>> \o orders
    IN SubSeq(pushed, 1, IF Len(pushed) < OrdersKeep THEN Len(pushed) ELSE OrdersKeep)

in_handoff(s) == s.state \in HandoffStates

-----------------------------------------------------------------------------
(* Product lookup                                                           *)

get_product_by_choice(choice) ==
    LET c == lower(strip(choice))
    IN IF isdigit(c)
       THEN IF int(c) \in DOMAIN PRODUCT_OPTIONS THEN PRODUCT_OPTIONS[int(c)] ELSE NoProduct
       ELSE IF \E i \in DOMAIN PRODUCT_OPTIONS : lower(PRODUCT_OPTIONS[i].name) = c
            THEN PRODUCT_OPTIONS[CHOOSE i \in DOMAIN PRODUCT_OPTIONS :
                     /\ lower(PRODUCT_OPTIONS[i].name) = c
                     /\ \A j \in DOMAIN PRODUCT_OPTIONS :
                            lower(PRODUCT_OPTIONS[j].name) = c => i <= j]
            ELSE NoProduct

\* next(k for k, v in PRODUCT_OPTIONS.items() if v == product)
product_id_of(product) ==
    CHOOSE k \in DOMAIN PRODUCT_OPTIONS :
        /\ PRODUCT_OPTIONS[k] = product
        /\ \A j \in DOMAIN PRODUCT_OPTIONS : PRODUCT_OPTIONS[j] = product => k <= j

order_total_without_delivery(price, qty) == price * qty

order_total(price, qty) == price * qty + DELIVERY_CHARGE

\* uuid.uuid4().hex: an id no earlier order has
new_order_id == Len(orders) + 1

-----------------------------------------------------------------------------
(* Buyer handling: state machine and buyer -> seller handoff.  reply is the *)
(* TwiML answer of the call, outbox the client.messages.create calls of the *)
(* call, in order.                                                         *)

session_data(session) == IF "data" \in DOMAIN session THEN session.data ELSE EmptyDict

\* line 155
restart_session == [state |-> "initial"]

welcome_session_stays_initial(session) == session

\* line 187
welcome_session(session) == dict_set(session, "state", "awaiting_product")

\* lines 163-164
handoff_session(session) ==
    dict_set(dict_set(session, "state", "handoff_seller"), "linked_seller", SELLER_NUMBER)

\* lines 197-201
select_product(session, product) ==
    LET d1 == dict_set(dict_set(dict_set(session_data(session),
                  "product_id", product_id_of(product)),
                  "product_name", product.name),
                  "price", product.price)
    IN dict_set(dict_set(session, "data", d1), "state", "awaiting_quantity")

quantity_rejected_negative_only(qty) == qty < 0

\* line 209
quantity_rejected(qty) == qty <= 0

\* the total of an earlier order is kept when there is one
store_quantity_keeps_total(session, qty) ==
    LET d0 == dict_set(session.data, "quantity", qty)
        d1 == IF "total" \in DOMAIN d0 THEN d0
              ELSE dict_set(d0, "total", order_total(session.data.price, qty))
    IN dict_set(dict_set(session, "data", d1), "state", "awaiting_location")

\* lines 212-214
store_quantity(session, qty) ==
    LET d1 == dict_set(dict_set(session.data,
                  "quantity", qty),
                  "total", order_total(session.data.price, qty))
    IN dict_set(dict_set(session, "data", d1), "state", "awaiting_location")

\* lines 224-235 (created_at, a wall-clock reading, is left out)
build_order(buyer_number, session, incoming_msg) ==
    LET d1 == dict_set(session.data, "location", incoming_msg)
    IN [order_id |-> new_order_id,
        buyer |-> buyer_number,
        product_name |-> d1.product_name,
        quantity |-> d1.quantity,
        price |-> d1.price,
        delivery_charge |-> DELIVERY_CHARGE,
        total |-> d1.total,
        location |-> d1.location]

\* lines 224, 244-246
order_handoff_session(session, incoming_msg, order) ==
    LET d1 == dict_set(session.data, "location", incoming_msg)
    IN dict_set(dict_set(dict_set(session,
           "state", "handoff_seller"),
           "linked_seller", SELLER_NUMBER),
           "data", dict_set(d1, "last_order_id", order.order_id))

has_handoff_keyword(msg_lower) == \E k \in BUYER_HANDOFF_KEYWORDS : contains(msg_lower, k)

_handle_buyer_incoming(buyer_number, incoming_msg) ==
    LET msg_lower == lower(incoming_msg)
        stored == get_session(buyer_number)
    IN
    IF msg_lower \in {<<"m","e","n","u">>, <<"c","a","t","a","l","o","g">>, <<"p","r","o","d","u","c","t","s">>}
    THEN \* global shortcut
         /\ reply' = [kind |-> "product_menu"]
         /\ sessions' = IF stored.state = "initial"
                        THEN set_session(sessions, buyer_number,
                                         dict_set(stored, "state", "awaiting_product"))
                        ELSE sessions
         /\ outbox' = <<>>
         /\ UNCHANGED <<active_chat, orders>>
    ELSE
    LET restart == msg_lower = <<"s","t","a","r","t">>
        session == IF restart THEN restart_session ELSE stored
        store == IF restart THEN set_session(sessions, buyer_number, session) ELSE sessions
        state == session.state
    IN
    IF has_handoff_keyword(msg_lower)
    THEN \* buyer requests human/seller anytime
         LET s2 == handoff_session(session)
         IN /\ sessions' = set_session(store, buyer_number, s2)
            /\ active_chat' = set_seller_active_chat(SELLER_NUMBER, buyer_number)
            /\ outbox' = <<[to |-> SELLER_NUMBER, kind |-> "handoff_summary",
                            buyer |-> buyer_number, last_message |-> incoming_msg,
                            data |-> session_data(s2)]>>
            /\ reply' = [kind |-> "connected_with_seller"]
            /\ UNCHANGED orders
    ELSE IF state = "initial"
    THEN /\ reply' = [kind |-> "product_menu"]
         /\ sessions' = set_session(store, buyer_number, welcome_session(session))
         /\ outbox' = <<>>
         /\ UNCHANGED <<active_chat, orders>>
    ELSE IF state = "awaiting_product"
    THEN LET product == get_product_by_choice(incoming_msg)
         IN IF product = NoProduct
            THEN /\ reply' = [kind |-> "product_not_found"]
                 /\ sessions' = store
                 /\ outbox' = <<>>
                 /\ UNCHANGED <<active_chat, orders>>
            ELSE /\ sessions' = set_session(store, buyer_number,
                                            select_product(session, product))
                 /\ reply' = [kind |-> "ask_quantity", product_name |-> product.name]
                 /\ outbox' = <<>>
                 /\ UNCHANGED <<active_chat, orders>>
    ELSE IF state = "awaiting_quantity"
    THEN IF isdigit(incoming_msg)
         THEN LET qty == int(incoming_msg)
              IN IF quantity_rejected(qty)
                 THEN /\ reply' = [kind |-> "quantity_not_positive"]
                      /\ sessions' = store
                      /\ outbox' = <<>>
                      /\ UNCHANGED <<active_chat, orders>>
                 ELSE /\ sessions' = set_session(store, buyer_number,
                                                 store_quantity(session, qty))
                      /\ reply' = [kind |-> "ask_location"]
                      /\ outbox' = <<>>
                      /\ UNCHANGED <<active_chat, orders>>
         ELSE /\ reply' = [kind |-> "quantity_not_a_number"]
              /\ sessions' = store
              /\ outbox' = <<>>
              /\ UNCHANGED <<active_chat, orders>>
    ELSE IF state = "awaiting_location"
    THEN LET order == build_order(buyer_number, session, incoming_msg)
             s2 == order_handoff_session(session, incoming_msg, order)
         IN /\ orders' = save_order(order)
            /\ reply' = [kind |-> "order_recorded", product_name |-> order.product_name,
                         quantity |-> order.quantity, total |-> order.total,
                         location |-> order.location]
            /\ sessions' = set_session(store, buyer_number, s2)
            /\ active_chat' = set_seller_active_chat(SELLER_NUMBER, buyer_number)
            /\ outbox' = <<[to |-> SELLER_NUMBER, kind |-> "order_summary",
                            buyer |-> buyer_number, product_name |-> order.product_name,
                            quantity |-> order.quantity, location |-> order.location,
                            total |-> order.total]>>
    ELSE IF state \in HandoffStates
    THEN /\ outbox' = <<[to |-> SELLER_NUMBER, kind |-> "buyer_says",
                         buyer |-> buyer_number, message |-> incoming_msg]>>
         /\ reply' = [kind |-> "message_sent_to_seller"]
         /\ sessions' = store
         /\ UNCHANGED <<active_chat, orders>>
    ELSE \* fallback
         /\ reply' = [kind |-> "fallback"]
         /\ sessions' = set_session(store, buyer_number, session)
         /\ outbox' = <<>>
         /\ UNCHANGED <<active_chat, orders>>

-----------------------------------------------------------------------------
(* Seller handling: commands, seller -> buyer relay, seller -> supervisor   *)

\* the orders in which scan_iter can return the keys of a store
ScanOrders(store) ==
    { f \in [1..Cardinality(DOMAIN store) -> DOMAIN store] :
        \A i, j \in 1..Cardinality(DOMAIN store) : f[i] = f[j] => i = j }

\* the loop over scan_iter("session:*"): the reported buyer is the key with
\* every "session:" replaced by ""
RECURSIVE list_handoff_buyers_for_seller(_, _, _)
list_handoff_buyers_for_seller(store, scan, seller_number) ==
    IF Len(scan) = 0 THEN <<>>
    ELSE LET k == Head(scan)
             s == store[k]
             rest == list_handoff_buyers_for_seller(store, Tail(scan), seller_number)
         IN IF /\ in_handoff(s)
               /\ "linked_seller" \in DOMAIN s
               /\ s.linked_seller = seller_number
            THEN <<replace(k, <<"s","e","s","s","i","o","n",":">>)>> \o rest
            ELSE rest

has_seller_help_keyword(lower_msg) == \E k \in SELLER_HELP_KEYWORDS : contains(lower_msg, k)

\* lines 289-290
escalated_session(sess) ==
    dict_set(dict_set(sess, "state", "handoff_supervisor"), "linked_seller", SELLER_NUMBER)

switch_allowed_always(s) == TRUE

\* line 326
switch_allowed(s) == in_handoff(s)

\* line 341
end_allowed(s) == in_handoff(s)

end_session_keeps_link(s) == dict_set(s, "state", "awaiting_product")

end_session_resumes_order(s) ==
    dict_pop(dict_set(s, "state",
                 IF "data" \in DOMAIN s THEN "awaiting_quantity" ELSE "awaiting_product"),
             "linked_seller")

\* lines 350-351
end_session(s) == dict_pop(dict_set(s, "state", "awaiting_product"), "linked_seller")

clear_active_always(buyer) == pop_seller_active_chat(SELLER_NUMBER)

\* lines 354-355
clear_active_after_end(buyer) ==
    IF get_seller_active_chat(SELLER_NUMBER) = buyer
    THEN pop_seller_active_chat(SELLER_NUMBER)
    ELSE active_chat

relay_allowed_always(s) == TRUE

\* line 373
relay_allowed(s) == in_handoff(s)

\* every stored session is escalated, listed or not
escalate_store_all(store, buyers, i) ==
    [k \in DOMAIN store |-> escalated_session(store[k])]

\* the loop at lines 287-297: the store after the first i buyers
RECURSIVE escalate_store(_, _, _)
escalate_store(store, buyers, i) ==
    IF i = 0 THEN store
    ELSE LET prev == escalate_store(store, buyers, i - 1)
             b == buyers[i]
             sess == IF session_key(b) \in DOMAIN prev
                     THEN prev[session_key(b)] ELSE [state |-> "initial"]
         IN set_session(prev, b, escalated_session(sess))

escalate_outbox(buyers, incoming_msg) ==
    IF SUPERVISOR_NUMBER # <<>>
    THEN [i \in 1..Len(buyers) |->
            [to |-> SUPERVISOR_NUMBER, kind |-> "supervisor_requested",
             buyer |-> buyers[i], note |-> incoming_msg]]
    ELSE <<>>

_handle_seller_incoming(incoming_msg) ==
    LET msg == strip(incoming_msg)
        lower_msg == lower(msg)
    IN
    IF has_seller_help_keyword(lower_msg)
    THEN \E scan \in ScanOrders(sessions) :
           LET buyers == list_handoff_buyers_for_seller(sessions, scan, SELLER_NUMBER)
           IN IF Len(buyers) = 0
              THEN /\ reply' = [kind |-> "no_conversation_to_escalate"]
                   /\ outbox' = <<>>
                   /\ UNCHANGED <<sessions, active_chat, orders>>
              ELSE /\ sessions' = escalate_store(sessions, buyers, Len(buyers))
                   /\ outbox' = escalate_outbox(buyers, incoming_msg)
                   /\ reply' = [kind |-> "supervisor_notified"]
                   /\ UNCHANGED <<active_chat, orders>>
    ELSE IF lower_msg = <<"#","l","i","s","t">>
    THEN \E scan \in ScanOrders(sessions) :
           LET buyers == list_handoff_buyers_for_seller(sessions, scan, SELLER_NUMBER)
               active == get_seller_active_chat(SELLER_NUMBER)
           IN /\ reply' = IF Len(buyers) = 0
                          THEN [kind |-> "no_active_buyers"]
                          ELSE [kind |-> "active_buyers",
                                buyer_list |-> [i \in 1..Len(buyers) |->
                                    [buyer |-> buyers[i], active |-> buyers[i] = active]]]
              /\ outbox' = <<>>
              /\ UNCHANGED <<sessions, active_chat, orders>>
    ELSE IF startswith(lower_msg, <<"#","s","w","i","t","c","h">>)
    THEN LET parts == split(msg)
         IN IF Len(parts) # 2
            THEN /\ reply' = [kind |-> "switch_usage"]
                 /\ outbox' = <<>>
                 /\ UNCHANGED <<sessions, active_chat, orders>>
            ELSE LET buyer_to_switch == parts[2]
                     s == get_session(buyer_to_switch)
                 IN IF ~ switch_allowed(s)
                    THEN /\ reply' = [kind |-> "not_in_active_handoff",
                                      buyer |-> buyer_to_switch]
                         /\ outbox' = <<>>
                         /\ UNCHANGED <<sessions, active_chat, orders>>
                    ELSE /\ active_chat' = set_seller_active_chat(SELLER_NUMBER,
                                                                  buyer_to_switch)
                         /\ reply' = [kind |-> "switched", buyer |-> buyer_to_switch]
                         /\ outbox' = <<>>
                         /\ UNCHANGED <<sessions, orders>>
    ELSE IF startswith(lower_msg, <<"#","e","n","d">>)
    THEN LET parts == split(msg)
         IN IF Len(parts) # 2
            THEN /\ reply' = [kind |-> "end_usage"]
                 /\ outbox' = <<>>
                 /\ UNCHANGED <<sessions, active_chat, orders>>
            ELSE LET buyer == parts[2]
                     s == get_session(buyer)
                 IN IF ~ end_allowed(s)
                    THEN /\ reply' = [kind |-> "not_in_active_handoff", buyer |-> buyer]
                         /\ outbox' = <<>>
                         /\ UNCHANGED <<sessions, active_chat, orders>>
                    ELSE /\ outbox' = <<[to |-> buyer, kind |-> "chat_closed"]>>
                         /\ sessions' = set_session(sessions, buyer, end_session(s))
                         /\ active_chat' = clear_active_after_end(buyer)
                         /\ reply' = [kind |-> "closed_chat", buyer |-> buyer]
                         /\ UNCHANGED orders
    ELSE IF lower_msg = <<"#","h","e","l","p">>
    THEN /\ reply' = [kind |-> "seller_commands"]
         /\ outbox' = <<>>
         /\ UNCHANGED <<sessions, active_chat, orders>>
    ELSE \* automatic relay to the active chat
         LET active == get_seller_active_chat(SELLER_NUMBER)
         IN IF active = None \/ active = <<>>
            THEN /\ reply' = [kind |-> "no_active_conversation"]
                 /\ outbox' = <<>>
                 /\ UNCHANGED <<sessions, active_chat, orders>>
            ELSE IF ~ relay_allowed(get_session(active))
            THEN /\ reply' = [kind |-> "no_longer_in_handoff", buyer |-> active]
                 /\ active_chat' = pop_seller_active_chat(SELLER_NUMBER)
                 /\ outbox' = <<>>
                 /\ UNCHANGED <<sessions, orders>>
            ELSE /\ outbox' = <<[to |-> active, kind |-> "seller_says",
                                 message |-> incoming_msg]>>
                 /\ reply' = [kind |-> "sent_to", buyer |-> active]
                 /\ UNCHANGED <<sessions, active_chat, orders>>

-----------------------------------------------------------------------------
(* Supervisor endpoint                                                      *)

supervised_session_fresh(s) ==
    [state |-> "handoff_supervisor", linked_seller |-> SELLER_NUMBER]

\* lines 397-398
supervised_session(s) ==
    dict_set(dict_set(s, "state", "handoff_supervisor"), "linked_seller", SELLER_NUMBER)

supervisor_reply(buyer, message) ==
    IF buyer = <<>> \/ message = <<>>
    THEN /\ reply' = [kind |-> "error_missing_buyer_or_message"]
         /\ outbox' = <<>>
         /\ UNCHANGED <<sessions, active_chat, orders>>
    ELSE LET s == get_session(buyer)
         IN /\ sessions' = set_session(sessions, buyer, supervised_session(s))
            /\ outbox' = <<[to |-> buyer, kind |-> "supervisor_says", message |-> message]>>
            /\ reply' = [kind |-> "status_ok"]
            /\ UNCHANGED <<active_chat, orders>>

-----------------------------------------------------------------------------
(* Webhook: the single endpoint                                             *)

webhook(from_number, Body) ==
    LET incoming_msg == strip(Body)
    IN IF from_number = SELLER_NUMBER
       THEN _handle_seller_incoming(incoming_msg)
       ELSE _handle_buyer_incoming(from_number, incoming_msg)

-----------------------------------------------------------------------------
(* Inputs and the specifications                                            *)

\* at most MaxOrders orders are recorded in a behaviour
MaxOrders == 1

Buyer1 == <<"+","1">>
Buyer2 == <<"+","2">>
\* an identity that itself contains the text of the session key prefix
Buyer3 == <<"s","e","s","s","i","o","n",":","+","1">>

Init ==
    /\ sessions = EmptyDict
    /\ active_chat = EmptyDict
    /\ orders = <<>>
    /\ SUPERVISOR_NUMBER \in {<<>>, <<"+","9">>}
    /\ request = [endpoint |-> "none"]
    /\ reply = [kind |-> "none"]
    /\ outbox = <<>>
    /\ in_flight = EmptyBag

\* POST /whatsapp from a buyer; inputs is a set of <<From, Body>>
BuyerMessage(inputs) ==
    \E i \in inputs :
        /\ webhook(i[1], i[2])
        /\ request' = [endpoint |-> "whatsapp", from |-> i[1], body |-> i[2]]
        /\ Len(orders') <= MaxOrders
        /\ UNCHANGED <<SUPERVISOR_NUMBER, in_flight>>

\* POST /whatsapp from the seller
SellerMessage(bodies) ==
    \E body \in bodies :
        /\ webhook(SELLER_NUMBER, body)
        /\ request' = [endpoint |-> "whatsapp", from |-> SELLER_NUMBER, body |-> body]
        /\ UNCHANGED <<SUPERVISOR_NUMBER, in_flight>>

\* POST /supervisor_reply
SupervisorMessage(buyers, messages) ==
    \E b \in buyers, m \in messages :
        /\ supervisor_reply(b, m)
        /\ request' = [endpoint |-> "supervisor_reply", buyer |-> b, message |-> m]
        /\ UNCHANGED <<SUPERVISOR_NUMBER, in_flight>>

(* Spec: two buyers, the whole ordering flow for the first one, every       *)
(* seller command for both.                                                *)
Buyers == {Buyer1, Buyer2}

BuyerBodies ==
    {<<"m","e","n","u">>, <<"s","t","a","r","t">>, <<"a","g","e","n","t">>, <<"2">>, <<"0">>, <<"-","3">>, <<"a","b","c">>}

BuyerInputs ==
    {<<Buyer1, body>> : body \in BuyerBodies}
    \cup {<<Buyer2, <<"s","t","a","r","t">>>>, <<Buyer2, <<"a","g","e","n","t">>>>}

SellerBodies ==
    {<<"#","l","i","s","t">>, <<"#","h","e","l","p">>, <<"#","b","o","t">>, <<"h","i">>, <<"#","s","w","i","t","c","h">>}
    \cup {<<"#","s","w","i","t","c","h"," ">> \o b : b \in Buyers}
    \cup {<<"#","e","n","d"," ">> \o b : b \in Buyers}

SupervisorMessages == {<<"o","k">>, <<>>}

Next ==
    \/ BuyerMessage(BuyerInputs)
    \/ SellerMessage(SellerBodies)
    \/ SupervisorMessage(Buyers, SupervisorMessages)

Spec == Init /\ [][Next]_vars

(* SpecOrders: one buyer ordering several products in several quantities,   *)
(* the seller closing the chat so that the buyer can order again.          *)
OrderBodies == {<<"s","t","a","r","t">>, <<"2">>, <<"3">>, <<"1">>}

NextOrders ==
    \/ BuyerMessage({<<Buyer1, body>> : body \in OrderBodies})
    \/ SellerMessage({<<"#","e","n","d"," ">> \o Buyer1})
    \/ SupervisorMessage({Buyer1}, {<<"o","k">>})

SpecOrders == Init /\ [][NextOrders]_vars

(* SpecIds: the supervisor endpoint takes any text as the buyer identity    *)
IdBuyers == {Buyer1, Buyer2, Buyer3}

NextIds ==
    \/ BuyerMessage({<<Buyer1, <<"a","g","e","n","t">>>>, <<Buyer1, <<"s","t","a","r","t">>>>,
                     <<Buyer2, <<"a","g","e","n","t">>>>, <<Buyer2, <<"s","t","a","r","t">>>>})
    \/ SellerMessage({<<"#","l","i","s","t">>, <<"#","s","u","p","e","r","v","i","s","o","r">>, <<"h","i">>}
                     \cup {<<"#","s","w","i","t","c","h"," ">> \o b : b \in IdBuyers}
                     \cup {<<"#","e","n","d"," ">> \o b : b \in IdBuyers})
    \/ SupervisorMessage(IdBuyers, {<<"o","k">>})

SpecIds == Init /\ [][NextIds]_vars

-----------------------------------------------------------------------------
(* Properties                                                               *)

bound_buyer == get_seller_active_chat(SELLER_NUMBER)

stored_state(b) == get_session(b).state

\* C1: every stored session has linked_seller exactly when its state is
\* handoff_seller or handoff_supervisor.
C1_LinkedIffHandoff ==
    \A k \in DOMAIN sessions :
        ("linked_seller" \in DOMAIN sessions[k])
            <=> (sessions[k].state \in {"handoff_seller", "handoff_supervisor"})

\* a chat has just been closed (link removed) while another buyer is still linked
C1_Witness ==
    /\ reply.kind = "closed_chat"
    /\ session_key(reply.buyer) \in DOMAIN sessions
    /\ "linked_seller" \notin DOMAIN sessions[session_key(reply.buyer)]
    /\ \E k \in DOMAIN sessions : "linked_seller" \in DOMAIN sessions[k]

seller_key == seller_active_chat_key(SELLER_NUMBER)

reaches_state_dispatch(msg) ==
    /\ lower(msg) \notin {<<"m","e","n","u">>, <<"c","a","t","a","l","o","g">>, <<"p","r","o","d","u","c","t","s">>, <<"s","t","a","r","t">>}
    /\ ~ has_handoff_keyword(lower(msg))

\* the step is the handling of a webhook request from sender with this body
handled(sender, body) ==
    request' = [endpoint |-> "whatsapp", from |-> sender, body |-> body]

\* C2: a request-human keyword from a buyer already in handoff_seller is only
\* relayed to the seller as a buyer message; no handoff summary is sent again.
C2_NoRepeatedNotify ==
    [][\A i \in BuyerInputs :
          ( /\ handled(i[1], i[2])
            /\ stored_state(i[1]) = "handoff_seller"
            /\ has_handoff_keyword(lower(strip(i[2]))) )
          => outbox' = <<[to |-> SELLER_NUMBER, kind |-> "buyer_says",
                          buyer |-> i[1], message |-> strip(i[2])]>>]_vars

\* the number a session key was made from
number_of_key(k) == SubSeq(k, Len(<<"s","e","s","s","i","o","n",":">>) + 1, Len(k))

linked_handoff_buyers ==
    { number_of_key(k) :
        k \in { k2 \in DOMAIN sessions :
                  /\ sessions[k2].state \in {"handoff_seller", "handoff_supervisor"}
                  /\ "linked_seller" \in DOMAIN sessions[k2]
                  /\ sessions[k2].linked_seller = SELLER_NUMBER } }

listed_buyers ==
    IF reply.kind = "active_buyers"
    THEN { reply.buyer_list[i].buyer : i \in DOMAIN reply.buyer_list }
    ELSE {}

\* C3: the buyers the #list answer reports are exactly the buyers whose session
\* is in a handoff state and linked to the seller.
C3_ListIsExact ==
    reply.kind \in {"active_buyers", "no_active_buyers"}
        => listed_buyers = linked_handoff_buyers

\* C4: a plain seller message while the active chat points at a buyer who is
\* not in handoff is not forwarded: the binding is removed, the seller is told,
\* and no session changes.
C4_StaleBindingNotRelayed ==
    [][\A body \in SellerBodies :
          ( /\ handled(SELLER_NUMBER, body)
            /\ ~ startswith(strip(body), <<"#">>)
            /\ bound_buyer # None
            /\ stored_state(bound_buyer) \notin {"handoff_seller", "handoff_supervisor"} )
          => /\ outbox' = <<>>
             /\ reply' = [kind |-> "no_longer_in_handoff", buyer |-> bound_buyer]
             /\ seller_key \notin DOMAIN active_chat'
             /\ sessions' = sessions
             /\ orders' = orders]_vars

\* the buyer restarted during handoff and the seller then wrote to them
C4_Witness ==
    /\ request = [endpoint |-> "whatsapp", from |-> SELLER_NUMBER, body |-> <<"h","i">>]
    /\ reply = [kind |-> "no_longer_in_handoff", buyer |-> Buyer1]
    /\ bound_buyer = None
    /\ stored_state(Buyer1) = "awaiting_product"
    /\ outbox = <<>>

StepInputs == BuyerInputs \cup {<<Buyer1, body>> : body \in OrderBodies}

\* C5: product choice p, then quantity q >= 1, then a location append exactly
\* one order with total = price(p) * q + 200 and leave the buyer in handoff_seller.
C5_OrderRecorded ==
    [][\A i \in StepInputs :
          LET b == i[1]
              msg == strip(i[2])
              s == get_session(b)
              s2 == sessions'[session_key(b)]
          IN (handled(b, i[2]) /\ reaches_state_dispatch(msg)) =>
             /\ ( s.state = "awaiting_product" /\ isdigit(msg)
                    /\ int(msg) \in DOMAIN PRODUCT_OPTIONS )
                => ( /\ s2.state = "awaiting_quantity"
                     /\ s2.data.product_id = int(msg)
                     /\ orders' = orders )
             /\ ( s.state = "awaiting_quantity" /\ isdigit(msg) /\ int(msg) >= 1 )
                => ( /\ s2.state = "awaiting_location"
                     /\ s2.data.product_id = s.data.product_id
                     /\ s2.data.quantity = int(msg)
                     /\ orders' = orders )
             /\ s.state = "awaiting_location"
                => ( /\ Len(orders') = Len(orders) + 1
                     /\ SubSeq(orders', 2, Len(orders')) = orders
                     /\ orders'[1].buyer = b
                     /\ orders'[1].location = msg
                     /\ orders'[1].quantity = s.data.quantity
                     /\ orders'[1].product_name = PRODUCT_OPTIONS[s.data.product_id].name
                     /\ orders'[1].price = PRODUCT_OPTIONS[s.data.product_id].price
                     /\ orders'[1].total =
                            PRODUCT_OPTIONS[s.data.product_id].price * s.data.quantity + 200
                     /\ s2.state = "handoff_seller" )]_vars

\* product 2 in quantity 3 has been ordered: total 500
C5_Witness ==
    /\ reply.kind = "order_recorded"
    /\ Len(orders) = 1
    /\ orders[1].product_name = PRODUCT_OPTIONS[2].name
    /\ orders[1].quantity = 3
    /\ orders[1].total = 500
    /\ stored_state(Buyer1) = "handoff_seller"

is_start(body) == lower(strip(body)) = <<"s","t","a","r","t">>

\* C6 as stated: 'start' leaves the stored session in state initial with no data
C6_RestartLeavesInitial ==
    [][\A i \in BuyerInputs :
          (handled(i[1], i[2]) /\ is_start(i[2]))
          => sessions'[session_key(i[1])] = [state |-> "initial"]]_vars

\* C6 amended: 'start' in any state drops data and linked_seller, is itself
\* answered with the catalog, and leaves the session in awaiting_product.
C6_RestartShowsCatalog ==
    [][\A i \in BuyerInputs :
          (handled(i[1], i[2]) /\ is_start(i[2]))
          => /\ sessions'[session_key(i[1])] = [state |-> "awaiting_product"]
             /\ reply' = [kind |-> "product_menu"]
             /\ outbox' = <<>>
             /\ active_chat' = active_chat
             /\ orders' = orders
             /\ \A k \in DOMAIN sessions :
                    k # session_key(i[1]) => sessions'[k] = sessions[k]]_vars

\* 'start' sent by a buyer who was in handoff with an order behind them
C6_Witness ==
    /\ request = [endpoint |-> "whatsapp", from |-> Buyer1, body |-> <<"s","t","a","r","t">>]
    /\ sessions[session_key(Buyer1)] = [state |-> "awaiting_product"]
    /\ reply.kind = "product_menu"
    /\ bound_buyer = Buyer1
    /\ Len(orders) = 1

\* C7: in awaiting_quantity the bodies "0", "-3" and "abc" change neither the
\* session nor the orders and are answered with a re-prompt.
C7_BadQuantityReprompts ==
    [][\A i \in BuyerInputs :
          ( /\ handled(i[1], i[2])
            /\ stored_state(i[1]) = "awaiting_quantity"
            /\ strip(i[2]) \in {<<"0">>, <<"-","3">>, <<"a","b","c">>} )
          => /\ sessions' = sessions
             /\ orders' = orders
             /\ active_chat' = active_chat
             /\ outbox' = <<>>
             /\ reply'.kind \in {"quantity_not_positive", "quantity_not_a_number"}]_vars

C7_Witness ==
    /\ request = [endpoint |-> "whatsapp", from |-> Buyer1, body |-> <<"0">>]
    /\ reply.kind = "quantity_not_positive"
    /\ stored_state(Buyer1) = "awaiting_quantity"
    /\ "quantity" \notin DOMAIN get_session(Buyer1).data

\* C8: '#switch <buyer>' for a buyer not in handoff (or without a session) is
\* rejected and changes neither the binding nor a session; for a buyer in
\* handoff the binding becomes that buyer.
C8_SwitchValidated ==
    [][\A b \in Buyers :
          handled(SELLER_NUMBER, <<"#","s","w","i","t","c","h"," ">> \o b)
          => IF stored_state(b) \in {"handoff_seller", "handoff_supervisor"}
             THEN /\ seller_key \in DOMAIN active_chat'
                  /\ active_chat'[seller_key] = b
                  /\ sessions' = sessions
             ELSE /\ reply' = [kind |-> "not_in_active_handoff", buyer |-> b]
                  /\ active_chat' = active_chat
                  /\ sessions' = sessions
                  /\ outbox' = <<>>]_vars

\* a switch to a buyer without a session was refused while another is bound
C8_Witness ==
    /\ request = [endpoint |-> "whatsapp", from |-> SELLER_NUMBER,
                  body |-> <<"#","s","w","i","t","c","h"," ">> \o Buyer2]
    /\ reply = [kind |-> "not_in_active_handoff", buyer |-> Buyer2]
    /\ session_key(Buyer2) \notin DOMAIN sessions
    /\ bound_buyer = Buyer1

\* C9: a successful '#end <buyer>' removes the binding when it points at
\* <buyer> and leaves it as it was otherwise.
C9_EndClearsOnlyOwnBinding ==
    [][\A b \in Buyers :
          ( /\ handled(SELLER_NUMBER, <<"#","e","n","d"," ">> \o b)
            /\ stored_state(b) \in {"handoff_seller", "handoff_supervisor"} )
          => /\ reply' = [kind |-> "closed_chat", buyer |-> b]
             /\ IF bound_buyer = b
                THEN seller_key \notin DOMAIN active_chat'
                ELSE active_chat' = active_chat]_vars

\* the chat with one buyer was closed while the binding points at the other
C9_Witness ==
    /\ request = [endpoint |-> "whatsapp", from |-> SELLER_NUMBER,
                  body |-> <<"#","e","n","d"," ">> \o Buyer2]
    /\ reply = [kind |-> "closed_chat", buyer |-> Buyer2]
    /\ bound_buyer = Buyer1
    /\ stored_state(Buyer1) \in {"handoff_seller", "handoff_supervisor"}

leftover_fields == {"quantity", "total", "location", "last_order_id"}

\* C10: a successful '#end <buyer>' leaves the buyer in awaiting_product without
\* linked_seller, and a numeric message in awaiting_product is a product choice
\* (awaiting_quantity on a catalog match, no change otherwise) whatever data an
\* earlier order left behind.
C10_NumberAfterEndIsProduct ==
    [][/\ \A b \in Buyers :
            ( /\ handled(SELLER_NUMBER, <<"#","e","n","d"," ">> \o b)
              /\ stored_state(b) \in {"handoff_seller", "handoff_supervisor"} )
            => /\ sessions'[session_key(b)].state = "awaiting_product"
               /\ "linked_seller" \notin DOMAIN sessions'[session_key(b)]
       /\ \A i \in BuyerInputs :
            LET s == get_session(i[1])
                s2 == sessions'[session_key(i[1])]
                msg == strip(i[2])
            IN ( /\ handled(i[1], i[2])
                 /\ s.state = "awaiting_product"
                 /\ isdigit(msg) )
               => IF int(msg) \in DOMAIN PRODUCT_OPTIONS
                  THEN /\ s2.state = "awaiting_quantity"
                       /\ s2.data.product_id = int(msg)
                       /\ s2.data.price = PRODUCT_OPTIONS[int(msg)].price
                       /\ \A f \in leftover_fields :
                            IF f \in DOMAIN session_data(s)
                            THEN f \in DOMAIN s2.data /\ s2.data[f] = s.data[f]
                            ELSE f \notin DOMAIN s2.data
                       /\ reply'.kind = "ask_quantity"
                       /\ orders' = orders
                  ELSE /\ sessions' = sessions
                       /\ reply'.kind = "product_not_found"
                       /\ orders' = orders]_vars

\* after an order and '#end', "2" was taken as the product, the old quantity kept
C10_Witness ==
    /\ request = [endpoint |-> "whatsapp", from |-> Buyer1, body |-> <<"2">>]
    /\ reply.kind = "ask_quantity"
    /\ stored_state(Buyer1) = "awaiting_quantity"
    /\ "last_order_id" \in DOMAIN get_session(Buyer1).data
    /\ "quantity" \in DOMAIN get_session(Buyer1).data
    /\ "linked_seller" \notin DOMAIN get_session(Buyer1)

-----------------------------------------------------------------------------
(* Properties of the seller commands, the supervisor endpoint and the       *)
(* binding                                                                 *)

seller_handled(body) == handled(SELLER_NUMBER, body)

\* C11: '#help' is answered with the command summary and changes nothing:
\* no session, no binding, no message to the supervisor or to a buyer.
C11_HelpOnlySummary ==
    [][seller_handled(<<"#","h","e","l","p">>)
          => /\ reply' = [kind |-> "seller_commands"]
             /\ sessions' = sessions
             /\ active_chat' = active_chat
             /\ outbox' = <<>>]_vars

\* the tests of lines 282, 302, 317, 334 and 360
recognized_command(lower_msg) ==
    \/ has_seller_help_keyword(lower_msg)
    \/ lower_msg = <<"#","l","i","s","t">>
    \/ startswith(lower_msg, <<"#","s","w","i","t","c","h">>)
    \/ startswith(lower_msg, <<"#","e","n","d">>)
    \/ lower_msg = <<"#","h","e","l","p">>

\* C12: a seller message that starts with '#' and is no recognized command is
\* answered with "unknown command" and not forwarded to the bound buyer.
C12_UnknownCommandNotRelayed ==
    [][\A body \in SellerBodies :
          ( /\ seller_handled(body)
            /\ startswith(strip(body), <<"#">>)
            /\ ~ recognized_command(lower(strip(body)))
            /\ bound_buyer # None )
          => /\ reply'.kind = "unknown_command"
             /\ outbox' = <<>>]_vars

\* C13: with SUPERVISOR_NUMBER empty, an escalation keyword while a buyer is in
\* handoff is not answered with the supervisor-notified confirmation, and no
\* message goes to a supervisor.
C13_NotConfiguredReply ==
    [][\A body \in SellerBodies :
          ( /\ seller_handled(body)
            /\ has_seller_help_keyword(lower(strip(body)))
            /\ SUPERVISOR_NUMBER = <<>>
            /\ linked_handoff_buyers # {} )
          => /\ reply'.kind # "supervisor_notified"
             /\ outbox' = <<>>]_vars

\* C15: the supervisor endpoint puts the named buyer in handoff_supervisor
\* linked to the seller, forwards the message to the buyer, keeps the buyer's
\* data, and changes neither the binding nor another session.
C15_SupervisorInjection ==
    [][\A b \in Buyers, m \in SupervisorMessages \ {<<>>} :
          request' = [endpoint |-> "supervisor_reply", buyer |-> b, message |-> m]
          => LET s == get_session(b)
                 s2 == sessions'[session_key(b)]
             IN /\ s2.state = "handoff_supervisor"
                /\ s2.linked_seller = SELLER_NUMBER
                /\ ("data" \in DOMAIN s2) = ("data" \in DOMAIN s)
                /\ session_data(s2) = session_data(s)
                /\ outbox' = <<[to |-> b, kind |-> "supervisor_says", message |-> m]>>
                /\ active_chat' = active_chat
                /\ orders' = orders
                /\ DOMAIN sessions' = DOMAIN sessions \cup {session_key(b)}
                /\ \A k \in DOMAIN sessions :
                       k # session_key(b) => sessions'[k] = sessions[k]]_vars

\* the supervisor wrote to a buyer who was choosing a quantity, while the
\* seller's active chat is the other buyer
C15_Witness ==
    /\ request = [endpoint |-> "supervisor_reply", buyer |-> Buyer1, message |-> <<"o","k">>]
    /\ stored_state(Buyer1) = "handoff_supervisor"
    /\ "data" \in DOMAIN get_session(Buyer1)
    /\ "quantity" \notin DOMAIN get_session(Buyer1).data
    /\ bound_buyer = Buyer2
    /\ stored_state(Buyer2) = "handoff_seller"

\* C16: a request-human keyword from a buyer already in a handoff state leaves
\* the session's state tag and the binding as they were.
C16_KeywordInHandoffNoTransition ==
    [][\A i \in BuyerInputs :
          ( /\ handled(i[1], i[2])
            /\ stored_state(i[1]) \in {"handoff_seller", "handoff_supervisor"}
            /\ has_handoff_keyword(lower(strip(i[2]))) )
          => /\ sessions'[session_key(i[1])].state = stored_state(i[1])
             /\ active_chat' = active_chat]_vars

changed_sessions ==
    { k \in DOMAIN sessions \cup DOMAIN sessions' :
        \/ k \notin DOMAIN sessions
        \/ k \notin DOMAIN sessions'
        \/ sessions'[k] # sessions[k] }

is_escalation ==
    /\ request'.endpoint = "whatsapp"
    /\ request'.from = SELLER_NUMBER
    /\ has_seller_help_keyword(lower(strip(request'.body)))

C18_NewHandoffTakesBinding ==
    [][ /\ \A i \in BuyerInputs :
             ( /\ handled(i[1], i[2])
               /\ stored_state(i[1]) \notin {"handoff_seller", "handoff_supervisor"}
               /\ session_key(i[1]) \in DOMAIN sessions'
               /\ sessions'[session_key(i[1])].state = "handoff_seller" )
             => /\ seller_key \in DOMAIN active_chat'
                /\ active_chat'[seller_key] = i[1]
                /\ \A k \in DOMAIN sessions :
                       k # session_key(i[1]) => sessions'[k] = sessions[k]
        /\ \A body \in SellerBodies :
             ( /\ seller_handled(body)
               /\ ~ startswith(strip(body), <<"#">>)
               /\ bound_buyer # None
               /\ stored_state(bound_buyer) \in {"handoff_seller", "handoff_supervisor"} )
             => /\ outbox' = <<[to |-> bound_buyer, kind |-> "seller_says",
                                message |-> strip(body)]>>
                /\ reply' = [kind |-> "sent_to", buyer |-> bound_buyer] ]_vars

\* the first buyer completed an order while the second was already in handoff
C18_Witness ==
    /\ request.endpoint = "whatsapp"
    /\ request.from = Buyer1
    /\ reply.kind = "order_recorded"
    /\ bound_buyer = Buyer1
    /\ stored_state(Buyer1) = "handoff_seller"
    /\ stored_state(Buyer2) = "handoff_seller"

-----------------------------------------------------------------------------
(* SpecReorder: one buyer who orders, is returned to the bot by '#end' (or   *)
(* restarts, or asks for the seller in the middle of the flow) and orders   *)
(* again, with two products of different price.                            *)

\* at most MaxReorders orders are recorded in a behaviour of SpecReorder
MaxReorders == 2

ReorderBodies == {<<"1">>, <<"2">>, <<"s","t","a","r","t">>, <<"a","g","e","n","t">>}

BuyerMessageUpTo(inputs, cap) ==
    \E i \in inputs :
        /\ webhook(i[1], i[2])
        /\ request' = [endpoint |-> "whatsapp", from |-> i[1], body |-> i[2]]
        /\ Len(orders') <= cap
        /\ UNCHANGED <<SUPERVISOR_NUMBER, in_flight>>

NextReorder ==
    \/ BuyerMessageUpTo({<<Buyer1, body>> : body \in ReorderBodies}, MaxReorders)
    \/ SellerMessage({<<"#","e","n","d"," ">> \o Buyer1})
    \/ SupervisorMessage({Buyer1}, {<<"o","k">>})

SpecReorder == Init /\ [][NextReorder]_vars

\* C19: every order in the log has quantity >= 1, a product name and a unit
\* price of one and the same catalog entry, and total = price * quantity + 200.
C19_OrdersConsistent ==
    \A n \in DOMAIN orders :
        /\ orders[n].quantity >= 1
        /\ \E p \in DOMAIN PRODUCT_OPTIONS :
              /\ orders[n].product_name = PRODUCT_OPTIONS[p].name
              /\ orders[n].price = PRODUCT_OPTIONS[p].price
        /\ orders[n].total = orders[n].price * orders[n].quantity + 200
        /\ orders[n].delivery_charge = 200

\* a second order of another product in another quantity, placed with the data
\* of the first order still in the session
C19_Witness ==
    /\ Len(orders) = 2
    /\ orders[1].buyer = Buyer1 /\ orders[2].buyer = Buyer1
    /\ orders[1].product_name # orders[2].product_name
    /\ orders[1].quantity # orders[2].quantity
    /\ orders[1].total # orders[2].total
    /\ reply.kind = "order_recorded"
    /\ get_session(Buyer1).data.last_order_id = orders[1].order_id

-----------------------------------------------------------------------------
(* Outbound sends that fail.  client.messages.create (lines 178, 262, 267,   *)
(* 293, 345, 379, 400) is called with no try/except around it, so a send    *)
(* that raises ends the request there: what the handler wrote before the    *)
(* call stays written, what comes after the call does not happen, and the   *)
(* caller gets the framework's error response instead of the reply.         *)

send_raised == [kind |-> "internal_server_error"]

\* _handle_buyer_incoming when its send (178, 262 or 267) raises
_handle_buyer_incoming_send_raises(buyer_number, incoming_msg) ==
    LET msg_lower == lower(incoming_msg)
        stored == get_session(buyer_number)
        restart == msg_lower = <<"s","t","a","r","t">>
        session == IF restart THEN restart_session ELSE stored
        store == IF restart THEN set_session(sessions, buyer_number, session) ELSE sessions
        state == session.state
    IN
    /\ msg_lower \notin {<<"m","e","n","u">>, <<"c","a","t","a","l","o","g">>, <<"p","r","o","d","u","c","t","s">>}
    /\ IF has_handoff_keyword(msg_lower)
       THEN \* 165 and 168 are done, 178 raises
            /\ sessions' = set_session(store, buyer_number, handoff_session(session))
            /\ active_chat' = set_seller_active_chat(SELLER_NUMBER, buyer_number)
            /\ UNCHANGED orders
       ELSE IF state = "awaiting_location"
       THEN \* 237, 247 and 250 are done, 262 raises
            LET order == build_order(buyer_number, session, incoming_msg)
            IN /\ orders' = save_order(order)
               /\ sessions' = set_session(store, buyer_number,
                                  order_handoff_session(session, incoming_msg, order))
               /\ active_chat' = set_seller_active_chat(SELLER_NUMBER, buyer_number)
       ELSE IF state \in HandoffStates
       THEN \* 267 raises
            /\ sessions' = store
            /\ UNCHANGED <<active_chat, orders>>
       ELSE FALSE
    /\ reply' = send_raised
    /\ outbox' = <<>>

\* _handle_seller_incoming when a send (293, 345 or 379) raises
_handle_seller_incoming_send_raises(incoming_msg) ==
    LET msg == strip(incoming_msg)
        lower_msg == lower(msg)
    IN
    /\ IF has_seller_help_keyword(lower_msg)
       THEN \* the send for the k-th buyer raises, after the k-th session is written
            \E scan \in ScanOrders(sessions) :
              LET buyers == list_handoff_buyers_for_seller(sessions, scan, SELLER_NUMBER)
              IN /\ SUPERVISOR_NUMBER # <<>>
                 /\ \E k \in 1..Len(buyers) :
                       /\ sessions' = escalate_store(sessions, buyers, k)
                       /\ outbox' = SubSeq(escalate_outbox(buyers, incoming_msg), 1, k - 1)
                 /\ UNCHANGED <<active_chat, orders>>
       ELSE IF lower_msg = <<"#","l","i","s","t">> \/ startswith(lower_msg, <<"#","s","w","i","t","c","h">>)
       THEN FALSE
       ELSE IF startswith(lower_msg, <<"#","e","n","d">>)
       THEN \* 345 raises before 350-355
            LET parts == split(msg)
            IN /\ Len(parts) = 2
               /\ end_allowed(get_session(parts[2]))
               /\ outbox' = <<>>
               /\ UNCHANGED <<sessions, active_chat, orders>>
       ELSE IF lower_msg = <<"#","h","e","l","p">>
       THEN FALSE
       ELSE \* 379 raises
            LET active == get_seller_active_chat(SELLER_NUMBER)
            IN /\ active # None /\ active # <<>>
               /\ relay_allowed(get_session(active))
               /\ outbox' = <<>>
               /\ UNCHANGED <<sessions, active_chat, orders>>
    /\ reply' = send_raised

\* supervisor_reply when the send at line 400 raises, after line 399
supervisor_reply_send_raises(buyer, message) ==
    /\ buyer # <<>> /\ message # <<>>
    /\ sessions' = set_session(sessions, buyer, supervised_session(get_session(buyer)))
    /\ outbox' = <<>>
    /\ reply' = send_raised
    /\ UNCHANGED <<active_chat, orders>>

BuyerSendRaises(inputs) ==
    \E i \in inputs :
        /\ _handle_buyer_incoming_send_raises(i[1], strip(i[2]))
        /\ request' = [endpoint |-> "whatsapp", from |-> i[1], body |-> i[2],
                       send |-> "raises"]
        /\ Len(orders') <= MaxOrders
        /\ UNCHANGED <<SUPERVISOR_NUMBER, in_flight>>

SellerSendRaises(bodies) ==
    \E body \in bodies :
        /\ _handle_seller_incoming_send_raises(strip(body))
        /\ request' = [endpoint |-> "whatsapp", from |-> SELLER_NUMBER, body |-> body,
                       send |-> "raises"]
        /\ UNCHANGED <<SUPERVISOR_NUMBER, in_flight>>

SupervisorSendRaises(buyers, messages) ==
    \E b \in buyers, m \in messages :
        /\ supervisor_reply_send_raises(b, m)
        /\ request' = [endpoint |-> "supervisor_reply", buyer |-> b, message |-> m,
                       send |-> "raises"]
        /\ UNCHANGED <<SUPERVISOR_NUMBER, in_flight>>

(* SpecSendFail: the ordering flow of one buyer, a handoff request of a     *)
(* second, the seller's '#end', escalation and relay, the supervisor's      *)
(* injection, each with a send that works or a send that raises.            *)
SendFailBuyerInputs ==
    {<<Buyer1, body>> : body \in {<<"s","t","a","r","t">>, <<"2">>, <<"a","g","e","n","t">>}} \cup {<<Buyer2, <<"a","g","e","n","t">>>>}

SendFailSellerBodies == {<<"#","e","n","d"," ">> \o Buyer1, <<"#","s","u","p","e","r","v","i","s","o","r">>, <<"h","i">>}

NextSendFail ==
    \/ BuyerMessage(SendFailBuyerInputs)
    \/ SellerMessage(SendFailSellerBodies)
    \/ SupervisorMessage({Buyer1}, {<<"o","k">>})
    \/ BuyerSendRaises(SendFailBuyerInputs)
    \/ SellerSendRaises(SendFailSellerBodies)
    \/ SupervisorSendRaises({Buyer1}, {<<"o","k">>})

SpecSendFail == Init /\ [][NextSendFail]_vars

send_failed(req) == "send" \in DOMAIN req

\* the sessions and the binding the same call leaves when its sends work
sessions_if_sent(req) ==
    IF req.endpoint = "supervisor_reply"
    THEN set_session(sessions, req.buyer, supervised_session(get_session(req.buyer)))
    ELSE LET msg == strip(req.body)
             lower_msg == lower(msg)
         IN IF req.from = SELLER_NUMBER
            THEN IF has_seller_help_keyword(lower_msg)
                 THEN LET scan == CHOOSE o \in ScanOrders(sessions) : TRUE
                          buyers == list_handoff_buyers_for_seller(sessions, scan,
                                                                   SELLER_NUMBER)
                      IN escalate_store(sessions, buyers, Len(buyers))
                 ELSE IF startswith(lower_msg, <<"#","e","n","d">>)
                 THEN LET buyer == split(msg)[2]
                      IN set_session(sessions, buyer, end_session(get_session(buyer)))
                 ELSE sessions
            ELSE LET restart == lower_msg = <<"s","t","a","r","t">>
                     session == IF restart THEN restart_session ELSE get_session(req.from)
                     store == IF restart THEN set_session(sessions, req.from, session)
                              ELSE sessions
                 IN IF has_handoff_keyword(lower_msg)
                    THEN set_session(store, req.from, handoff_session(session))
                    ELSE IF session.state = "awaiting_location"
                    THEN set_session(store, req.from,
                             order_handoff_session(session, msg,
                                 build_order(req.from, session, msg)))
                    ELSE store

active_chat_if_sent(req) ==
    IF req.endpoint = "supervisor_reply"
    THEN active_chat
    ELSE LET msg == strip(req.body)
             lower_msg == lower(msg)
         IN IF req.from = SELLER_NUMBER
            THEN IF ~ has_seller_help_keyword(lower_msg) /\ startswith(lower_msg, <<"#","e","n","d">>)
                 THEN clear_active_after_end(split(msg)[2])
                 ELSE active_chat
            ELSE IF \/ has_handoff_keyword(lower_msg)
                    \/ (IF lower_msg = <<"s","t","a","r","t">> THEN restart_session
                        ELSE get_session(req.from)).state = "awaiting_location"
                 THEN set_seller_active_chat(SELLER_NUMBER, req.from)
                 ELSE active_chat

\* C14: when an outbound send of a handler fails, the sender still gets the
\* synchronous reply, and the stored sessions and the Active-Chat Binding after
\* the call are those the same call leaves with a successful send.
C14_SendFailureChangesNothing ==
    [][send_failed(request') =>
          /\ reply' # send_raised
          /\ sessions' = sessions_if_sent(request')
          /\ active_chat' = active_chat_if_sent(request')]_vars

-----------------------------------------------------------------------------
(* Requests handled at once.  A handler touches the store one key at a      *)
(* time (redis_client.get / set / delete / lpush / ltrim, lines 57-79) and  *)
(* holds no lock, so between two of its store calls the calls of other      *)
(* handlers can take place.  A handler in flight is the list of writes it   *)
(* has decided on (todo) and what it does once they are done (then).        *)

\* at most MaxInFlight requests are being handled at the same time
MaxInFlight == 2

set_session_op(key, value) == [op |-> "set_session", key |-> key, value |-> value]
set_active_op(buyer) == [op |-> "set_active", buyer |-> buyer]
delete_active_op == [op |-> "delete_active"]
lpush_op(order) == [op |-> "lpush", order |-> order]
ltrim_op == [op |-> "ltrim"]

returned == [pc |-> "return"]

handler(todo, then) == [todo |-> todo, then |-> then]

\* the orders built by handlers that have not pushed them yet
in_flight_orders ==
    UNION {{h.todo[n].order : n \in {m \in DOMAIN h.todo : h.todo[m].op = "lpush"}}
              : h \in BagToSet(in_flight)}

\* uuid.uuid4().hex (line 226): an id no other order has
uuid4 == Len(orders) + Cardinality(in_flight_orders) + 1

\* the store calls of _handle_buyer_incoming after its read at line 143, in the
\* order of the code
buyer_writes(buyer_number, incoming_msg, stored) ==
    LET msg_lower == lower(incoming_msg)
    IN
    IF msg_lower \in {<<"m","e","n","u">>, <<"c","a","t","a","l","o","g">>, <<"p","r","o","d","u","c","t","s">>}
    THEN IF stored.state = "initial"
         THEN <<set_session_op(buyer_number, dict_set(stored, "state", "awaiting_product"))>>
         ELSE <<>>
    ELSE
    LET restart == msg_lower = <<"s","t","a","r","t">>
        session == IF restart THEN restart_session ELSE stored
        first == IF restart THEN <<set_session_op(buyer_number, session)>> ELSE <<>>
        state == session.state
    IN
    IF has_handoff_keyword(msg_lower)
    THEN first \o <<set_session_op(buyer_number, handoff_session(session)),
                    set_active_op(buyer_number)>>
    ELSE IF state = "initial"
    THEN first \o <<set_session_op(buyer_number, welcome_session(session))>>
    ELSE IF state = "awaiting_product"
    THEN LET product == get_product_by_choice(incoming_msg)
         IN IF product = NoProduct
            THEN first
            ELSE first \o <<set_session_op(buyer_number, select_product(session, product))>>
    ELSE IF state = "awaiting_quantity"
    THEN IF isdigit(incoming_msg) /\ ~ quantity_rejected(int(incoming_msg))
         THEN first \o <<set_session_op(buyer_number,
                                        store_quantity(session, int(incoming_msg)))>>
         ELSE first
    ELSE IF state = "awaiting_location"
    THEN LET order == [build_order(buyer_number, session, incoming_msg)
                         EXCEPT !.order_id = uuid4]
         IN first \o <<lpush_op(order), ltrim_op,
                       set_session_op(buyer_number,
                           order_handoff_session(session, incoming_msg, order)),
                       set_active_op(buyer_number)>>
    ELSE first

\* _handle_seller_incoming up to and including its first store call
seller_begins(incoming_msg) ==
    LET msg == strip(incoming_msg)
        lower_msg == lower(msg)
    IN
    IF has_seller_help_keyword(lower_msg) \/ lower_msg = <<"#","l","i","s","t">>
    THEN \* scan_iter("session:*") at line 84
         {handler(<<>>, IF Len(scan) = 0 THEN returned
                        ELSE [pc |-> "list", keys |-> scan, buyers |-> <<>>,
                              escalate |-> has_seller_help_keyword(lower_msg)])
            : scan \in ScanOrders(sessions)}
    ELSE IF startswith(lower_msg, <<"#","s","w","i","t","c","h">>)
    THEN LET parts == split(msg)
         IN IF Len(parts) = 2 /\ switch_allowed(get_session(parts[2]))
            THEN {handler(<<set_active_op(parts[2])>>, returned)}
            ELSE {handler(<<>>, returned)}
    ELSE IF startswith(lower_msg, <<"#","e","n","d">>)
    THEN LET parts == split(msg)
         IN IF Len(parts) = 2 /\ end_allowed(get_session(parts[2]))
            THEN {handler(<<set_session_op(parts[2], end_session(get_session(parts[2])))>>,
                          [pc |-> "end_read_active", buyer |-> parts[2]])}
            ELSE {handler(<<>>, returned)}
    ELSE IF lower_msg = <<"#","h","e","l","p">>
    THEN {handler(<<>>, returned)}
    ELSE LET active == get_seller_active_chat(SELLER_NUMBER)
         IN IF active = None \/ active = <<>>
            THEN {handler(<<>>, returned)}
            ELSE {handler(<<>>, [pc |-> "relay_read_session", buyer |-> active])}

\* the next read of a handler whose writes are done
handler_reads(then) ==
    IF then.pc = "list"
    THEN \* redis_client.get(k) at line 85
         LET k == Head(then.keys)
             found == IF k \in DOMAIN sessions
                      THEN list_handoff_buyers_for_seller(sessions, <<k>>, SELLER_NUMBER)
                      ELSE <<>>
             buyers == then.buyers \o found
         IN IF Len(then.keys) > 1
            THEN handler(<<>>, [then EXCEPT !.keys = Tail(then.keys), !.buyers = buyers])
            ELSE IF then.escalate /\ Len(buyers) > 0
            THEN handler(<<>>, [pc |-> "escalate", buyers |-> buyers])
            ELSE handler(<<>>, returned)
    ELSE IF then.pc = "escalate"
    THEN \* get_session(b) at line 288, set_session(b, sess) at line 291
         LET b == Head(then.buyers)
         IN handler(<<set_session_op(b, escalated_session(get_session(b)))>>,
                    IF Len(then.buyers) > 1
                    THEN [pc |-> "escalate", buyers |-> Tail(then.buyers)]
                    ELSE returned)
    ELSE IF then.pc = "end_read_active"
    THEN \* lines 354-355
         IF get_seller_active_chat(SELLER_NUMBER) = then.buyer
         THEN handler(<<delete_active_op>>, returned)
         ELSE handler(<<>>, returned)
    ELSE \* "relay_read_session": lines 372-375
         IF ~ relay_allowed(get_session(then.buyer))
         THEN handler(<<delete_active_op>>, returned)
         ELSE handler(<<>>, returned)

\* a handler with nothing left to do has returned and is no longer in flight
begun(h) ==
    IF h.todo = <<>> /\ h.then = returned THEN in_flight ELSE in_flight (+) SetToBag({h})

continued(h, h2) ==
    LET rest == in_flight (-) SetToBag({h})
    IN IF h2.todo = <<>> /\ h2.then = returned THEN rest ELSE rest (+) SetToBag({h2})

\* a request from a buyer arrives and its handler reads the session (line 143)
BuyerBegins(inputs) ==
    \E i \in inputs :
        LET h == handler(buyer_writes(i[1], strip(i[2]), get_session(i[1])), returned)
        IN /\ BagCardinality(in_flight) < MaxInFlight
           /\ Len(orders) + Cardinality(in_flight_orders)
                + Cardinality({n \in DOMAIN h.todo : h.todo[n].op = "lpush"}) <= MaxOrders
           /\ in_flight' = begun(h)
           /\ UNCHANGED <<sessions, active_chat, orders, SUPERVISOR_NUMBER,
                          request, reply, outbox>>

\* a request from the seller arrives and its handler makes its first store call
SellerBegins(bodies) ==
    \E body \in bodies :
        \E h \in seller_begins(strip(body)) :
           /\ BagCardinality(in_flight) < MaxInFlight
           /\ in_flight' = begun(h)
           /\ UNCHANGED <<sessions, active_chat, orders, SUPERVISOR_NUMBER,
                          request, reply, outbox>>

\* POST /supervisor_reply arrives and its handler reads the session (line 396)
SupervisorBegins(buyers, messages) ==
    \E b \in buyers, m \in messages :
        LET h == IF b = <<>> \/ m = <<>>
                 THEN handler(<<>>, returned)
                 ELSE handler(<<set_session_op(b, supervised_session(get_session(b)))>>,
                              returned)
        IN /\ BagCardinality(in_flight) < MaxInFlight
           /\ in_flight' = begun(h)
           /\ UNCHANGED <<sessions, active_chat, orders, SUPERVISOR_NUMBER,
                          request, reply, outbox>>

\* a handler in flight makes its next read
HandlerReads ==
    \E h \in BagToSet(in_flight) :
        /\ h.todo = <<>>
        /\ in_flight' = continued(h, handler_reads(h.then))
        /\ UNCHANGED <<sessions, active_chat, orders, SUPERVISOR_NUMBER,
                       request, reply, outbox>>

\* a handler in flight makes its next write: the whole value, last write wins
HandlerWrites ==
    \E h \in BagToSet(in_flight) :
        /\ h.todo # <<>>
        /\ LET w == Head(h.todo)
           IN /\ sessions' = IF w.op = "set_session"
                             THEN set_session(sessions, w.key, w.value) ELSE sessions
              /\ active_chat' = IF w.op = "set_active"
                                THEN set_seller_active_chat(SELLER_NUMBER, w.buyer)
                                ELSE IF w.op = "delete_active"
                                THEN pop_seller_active_chat(SELLER_NUMBER)
                                ELSE active_chat
              /\ orders' = IF w.op = "lpush" THEN <<w.order>> \o orders
                           ELSE IF w.op = "ltrim"
                           THEN SubSeq(orders, 1, IF Len(orders) < OrdersKeep
                                                  THEN Len(orders) ELSE OrdersKeep)
                           ELSE orders
        /\ in_flight' = continued(h, handler(Tail(h.todo), h.then))
        /\ UNCHANGED <<SUPERVISOR_NUMBER, request, reply, outbox>>

(* SpecConc: up to MaxInFlight requests at once about one buyer: the        *)
(* ordering flow, the handoff request, the seller's '#end' and escalation,  *)
(* the supervisor's injection.                                              *)
ConcBuyerInputs == {<<Buyer1, body>> : body \in {<<"s","t","a","r","t">>, <<"2">>, <<"a","g","e","n","t">>}}

NextConc ==
    \/ BuyerBegins(ConcBuyerInputs)
    \/ SellerBegins({<<"#","e","n","d"," ">> \o Buyer1, <<"#","s","u","p","e","r","v","i","s","o","r">>})
    \/ SupervisorBegins({Buyer1}, {<<"o","k">>})
    \/ HandlerReads
    \/ HandlerWrites

SpecConc == Init /\ [][NextConc]_vars

\* C20: with the store calls of concurrent handlers interleaved in any order,
\* every stored session has linked_seller exactly when its state is one of the
\* handoff states.
C20_InterleavedLinkedIffHandoff ==
    \A k \in DOMAIN sessions :
        LET s == sessions[k]
        IN IF in_handoff(s) THEN "linked_seller" \in DOMAIN s
           ELSE "linked_seller" \notin DOMAIN s

\* a handler has written a handoff session and still has to set the binding,
\* and meanwhile the write of another handler has replaced that session by one
\* that is not in handoff
C20_Witness ==
    \E h \in BagToSet(in_flight) :
        /\ h.todo # <<>>
        /\ h.todo[1].op = "set_active"
        /\ session_key(h.todo[1].buyer) \in DOMAIN sessions
        /\ ~ in_handoff(get_session(h.todo[1].buyer))
        /\ "data" \in DOMAIN get_session(h.todo[1].buyer)
====
